---------------------------- MODULE Spec2Model ----------------------------
(***************************************************************************)
(* shunbin: the incremental indexing engine (src/index.rs), the recursive  *)
(* source walker (src/fs.rs), the path classifier (src/path.rs) and the    *)
(* search result mapper (src/search.rs).                                   *)
(*                                                                         *)
(* Strings and paths are sequences of one-character strings, so that       *)
(* prefix stripping, joining and extension tests are computed, not         *)
(* assumed.  Times are integers read from one clock.                       *)
(***************************************************************************)
EXTENDS Integers, Sequences, FiniteSets, Bags, TLC

(***************************************************************************)
(* Bounds of the model.                                                    *)
(***************************************************************************)
\* the clock runs from 0 to MaxTime
MaxTime == 1
\* passes started over all processes: a pass of Indexer::index over one
\* source, or one call of Indexer::index_file
MaxPasses == 2

\* Option::None for a time (times are >= 0)
None == -1

(***************************************************************************)
(* Strings                                                                 *)
(***************************************************************************)
SEP == "/"

IsPrefix(p, s) ==
  /\ Len(p) <= Len(s)
  /\ \A i \in 1..Len(p) : s[i] = p[i]

Drop(s, n) == SubSeq(s, n + 1, Len(s))

\* str::strip_prefix: <<TRUE, rest>> or <<FALSE, <<>>>> for None
strip_prefix(s, p) ==
  IF IsPrefix(p, s) THEN <<TRUE, Drop(s, Len(p))>> ELSE <<FALSE, <<>>>>

\* std::path::is_separator (unix)
is_separator(c) == c = SEP

RECURSIVE trim_start_matches(_, _)
\* str::trim_start_matches with a one-character pattern
trim_start_matches(s, c) ==
  IF s # <<>> /\ s[1] = c THEN trim_start_matches(Tail(s), c) ELSE s

IsWhitespace(c) == c \in {" ", "\t", "\n", "\r"}

RECURSIVE TrimStart(_)
TrimStart(s) ==
  IF s # <<>> /\ IsWhitespace(s[1]) THEN TrimStart(Tail(s)) ELSE s

RECURSIVE TrimEnd(_)
TrimEnd(s) ==
  IF s # <<>> /\ IsWhitespace(s[Len(s)])
    THEN TrimEnd(SubSeq(s, 1, Len(s) - 1))
    ELSE s

\* str::trim
trim(s) == TrimEnd(TrimStart(s))

\* position of the first c in s, 0 when there is none
IndexOf(s, c) ==
  IF \E i \in 1..Len(s) : s[i] = c
    THEN CHOOSE i \in 1..Len(s) : s[i] = c /\ \A j \in 1..(i - 1) : s[j] # c
    ELSE 0

\* position of the last c in s, 0 when there is none
LastIndexOf(s, c) ==
  IF \E i \in 1..Len(s) : s[i] = c
    THEN CHOOSE i \in 1..Len(s) : s[i] = c /\ \A j \in (i + 1)..Len(s) : s[j] # c
    ELSE 0

\* str::lines().nth(0) of a non-empty string: up to the first "\n", without
\* the "\r" that may precede it (a "\r" that no "\n" follows stays)
FirstLine(s) ==
  LET n == IndexOf(s, "\n")
      l == IF n = 0 THEN s ELSE SubSeq(s, 1, n - 1)
  IN IF n # 0 /\ l # <<>> /\ l[Len(l)] = "\r"
       THEN SubSeq(l, 1, Len(l) - 1)
       ELSE l

(***************************************************************************)
(* Paths (src/path.rs and the std::path operations the code passes)         *)
(***************************************************************************)
\* Path::file_name: the last component
file_name(path) == Drop(path, LastIndexOf(path, SEP))

\* Path::extension: <<TRUE, ext>> or <<FALSE, <<>>>> for None
extension(path) ==
  LET f == file_name(path)
      d == LastIndexOf(f, ".")
  IN IF d <= 1 THEN <<FALSE, <<>>>> ELSE <<TRUE, Drop(f, d)>>

\* a directory's entry: DirEntry::path() is dir.join(name)
EntryPath(dir, name) == dir \o <<SEP>> \o name

\* PathBuf::join: an absolute argument replaces the base
PathJoin(base, p) ==
  IF p # <<>> /\ p[1] = SEP THEN p
  ELSE IF base # <<>> /\ base[Len(base)] = SEP THEN base \o p
  ELSE IF base = <<>> THEN p
  ELSE base \o <<SEP>> \o p

\* a classifier that treats no name as hidden
is_hidden_never(path) == FALSE

\* PathExt::is_hidden
is_hidden(path) ==
  LET f == file_name(path)
  IN f # <<>> /\ f[1] = "."

(***************************************************************************)
(* The configuration: one index with two sources.  The root of "memo" has  *)
(* the root of "notes" as a string prefix.                                 *)
(***************************************************************************)
IndexDocs == <<"d", "o", "c", "s">>
SrcNotes == <<"n", "o", "t", "e", "s">>
SrcMemo == <<"m", "e", "m", "o">>
RootNotes == <<"/", "n">>
RootMemo == <<"/", "n", "2">>

SourceNames == {SrcNotes, SrcMemo}

\* IndexConfig.sources: HashMap<String, PathBuf>
Sources == [s \in SourceNames |-> IF s = SrcNotes THEN RootNotes ELSE RootMemo]

\* TimestampKey(index, source)
TimestampKey(i, s) == <<i, s>>

Keys == {TimestampKey(IndexDocs, s) : s \in SourceNames}

(***************************************************************************)
(* The directory trees under the roots                                     *)
(*   /n/a.md  /n/.s.md  /n/sub/b.txt  /n/sub/c.rs  /n/.g/x.md   /n2/a.md   *)
(***************************************************************************)
NameA == <<"a", ".", "m", "d">>
NameSecret == <<".", "s", ".", "m", "d">>
NameC == <<"c", ".", "r", "s">>
NameSub == <<"s", "u", "b">>
NameB == <<"b", ".", "t", "x", "t">>
NameGit == <<".", "g">>
NameX == <<"x", ".", "m", "d">>

DirSub == EntryPath(RootNotes, NameSub)
DirGit == EntryPath(RootNotes, NameGit)

FileA == EntryPath(RootNotes, NameA)
FileSecret == EntryPath(RootNotes, NameSecret)
FileC == EntryPath(DirSub, NameC)
FileB == EntryPath(DirSub, NameB)
FileX == EntryPath(DirGit, NameX)
FileM == EntryPath(RootMemo, NameA)

\* a directory that is no configured source, with directories side by side
\* and one below the other
\*   /w/a.md  /w/sub/b.txt  /w/sub/sub/a.md  /w/t/b.txt
RootWide == <<"/", "w">>
NameTwo == <<"t">>
WideDirs ==
  {RootWide, EntryPath(RootWide, NameSub), EntryPath(RootWide, NameTwo),
   EntryPath(EntryPath(RootWide, NameSub), NameSub)}
WideFiles ==
  {EntryPath(RootWide, NameA), EntryPath(EntryPath(RootWide, NameSub), NameB),
   EntryPath(EntryPath(EntryPath(RootWide, NameSub), NameSub), NameA),
   EntryPath(EntryPath(RootWide, NameTwo), NameB)}

Dirs == {RootNotes, RootMemo, DirSub, DirGit} \cup WideDirs
Files == {FileA, FileSecret, FileC, FileB, FileX, FileM} \cup WideFiles

\* the entries of a directory, as one listing
Entries(dir) ==
  IF dir = RootNotes THEN <<FileA, FileSecret, DirSub, DirGit>>
  ELSE IF dir = DirSub THEN <<FileB, FileC>>
  ELSE IF dir = DirGit THEN <<FileX>>
  ELSE IF dir = RootMemo THEN <<FileM>>
  ELSE IF dir = RootWide
    THEN <<EntryPath(dir, NameSub), EntryPath(dir, NameA),
           EntryPath(dir, NameTwo)>>
  ELSE IF dir = EntryPath(RootWide, NameSub)
    THEN <<EntryPath(dir, NameB), EntryPath(dir, NameSub)>>
  ELSE IF dir = EntryPath(EntryPath(RootWide, NameSub), NameSub)
    THEN <<EntryPath(dir, NameA)>>
  ELSE IF dir = EntryPath(RootWide, NameTwo) THEN <<EntryPath(dir, NameB)>>
  ELSE <<>>

Reverse(s) == [i \in 1..Len(s) |-> s[Len(s) + 1 - i]]

\* fs::read_dir(dir) gives the entries in an order of the system's choosing:
\* the listing, forwards or backwards
Listings(dir) == {Entries(dir), Reverse(Entries(dir))}

\* the files the environment rewrites
MutableFiles == {FileA}

\* the content the rewritten file starts with, and the contents the
\* environment writes into it
BodyB == <<"B">>
BodyEmpty == <<>>
BodyA == <<"#", " ", "A", "\n", "t">>
Bodies == {BodyEmpty, BodyA}

\* Path::is_dir, Path::is_file
is_dir(path) == path \in Dirs
is_file(path) == path \in Files

\* PathExt::is_regular_file
is_regular_file(path) == is_file(path) /\ ~is_hidden(path)

\* PathExt::is_index_target
is_index_target(path) ==
  IF ~is_regular_file(path) THEN FALSE
  ELSE LET e == extension(path)
       IN e[1] /\ e[2] \in {<<"m", "d">>, <<"t", "x", "t">>}

\* the file lies in the directory tree of root: root is a prefix of its
\* path component by component
IsUnder(path, root) == IsPrefix(root \o <<SEP>>, path)

(***************************************************************************)
(* State                                                                   *)
(***************************************************************************)
VARIABLES
  clock,      \* what Utc::now() and the filesystem read
  fsBody,     \* content of each mutable file
  fsMtime,    \* last-modified time of each mutable file
  disk,       \* timestamp.toml: its lines <<key string, time>>
  committed,  \* the committed index of "docs": a bag of documents
  pc,         \* where the process is
  tms,        \* Indexer.tms: Option<TimestampManager>
  count,      \* Indexer.count
  increment,  \* Indexer.increment
  todo,       \* sources the running call has not reached yet
  source_name, \* the source being processed
  start_at,   \* the time recorded when its pass started
  added,      \* the pass's local count
  read_dir,   \* the RecursiveReadDir of the pass
  pending,    \* operations queued in the IndexWriter since its last commit
  file_path,  \* the path given to index_file
  result,     \* what the last call (or process) returned
  passes,     \* passes started so far
  yielded,    \* history: the files the current pass or call has processed
  skipped,    \* history: the files the cutoff test of the pass has rejected
  lastStart,  \* history: start time of the last committed pass of each key
  self,       \* a search result (Doc)
  sources,    \* the mapping handed to Doc::absolute_path
  found,      \* what Doc::absolute_path returned
  produced,   \* history: the items a walker driven on its own has produced
  enqueued,   \* history: the directories it has queued, in that order
  opened,     \* history: the directories it has taken off the queue
  index_mode, \* the flags of the index command the match of main reads
  indexed     \* history: the documents the calls on the Indexer have inserted
              \* and committed

vars == <<clock, fsBody, fsMtime, disk, committed, pc, tms, count,
          increment, todo, source_name, start_at, added, read_dir, pending,
          file_path, result, passes, yielded, skipped, lastStart,
          self, sources, found, produced, enqueued, opened, index_mode,
          indexed>>

envVars == <<clock, fsBody, fsMtime>>
indexerVars == <<tms, count, increment>>
passVars == <<source_name, start_at, added, read_dir, yielded, skipped>>
searchVars == <<self, sources, found>>
walkVars == <<produced, enqueued, opened>>

StaticBody == <<"x">>

\* fs::read_to_string(path) when it succeeds
Body(path) == IF path \in MutableFiles THEN fsBody[path] ELSE StaticBody

\* fs::metadata(path)?.modified()? when it succeeds
Mtime(path) == IF path \in MutableFiles THEN fsMtime[path] ELSE 0

NoSource == <<>>
NoPath == <<>>
\* an empty HashMap
EmptyMap == [k \in {} |-> None]
EmptyPaths == [n \in {} |-> <<>>]
NoTms == [some |-> FALSE, timestamps |-> EmptyMap]
\* no flag of the index command given
NoFlags == [full |-> FALSE, increment |-> FALSE]

NoWalker == [it |-> <<>>, dirs |-> <<>>, last_updated_at |-> None]

(***************************************************************************)
(* RecursiveReadDir (src/fs.rs)                                            *)
(***************************************************************************)
\* RecursiveReadDir::new once fs::read_dir(dir) has succeeded with listing
RecursiveReadDir_new(listing) ==
  [it |-> listing, dirs |-> <<>>, last_updated_at |-> None]

\* RecursiveReadDir::updated_after
updated_after(rd, datetime) == [rd EXCEPT !.last_updated_at = datetime]

\* a comparison that also accepts an equal time
is_updated_after_or_at(path, time, statOk) ==
  IF statOk THEN <<TRUE, Mtime(path) >= time>> ELSE <<FALSE, FALSE>>

\* is_updated_after: io::Result<bool> as <<is Ok, value>>; statOk is whether
\* fs::metadata and modified() succeed
is_updated_after(path, time, statOk) ==
  IF statOk THEN <<TRUE, Mtime(path) > time>> ELSE <<FALSE, FALSE>>

\* Result::unwrap_or
unwrap_or(r, default) == IF r[1] THEN r[2] ELSE default

ItemOk(path, stat) == [kind |-> "ok", path |-> path, stat |-> stat]
ItemErr == [kind |-> "err", path |-> NoPath, stat |-> "none"]
ItemNone == [kind |-> "none", path |-> NoPath, stat |-> "none"]

\* an outcome of next with one more file rejected by the cutoff test
AlsoSkipped(o, path) ==
  [o EXCEPT !.skipped = @ \cup {[path |-> path, mtime |-> Mtime(path)]}]

\* a queue that takes a directory in at its front
push_front(dirs, path) == <<path>> \o dirs

\* VecDeque::push_back
push_back(dirs, path) == Append(dirs, path)

\* a failed read that leaves the cursor where it was
ReadFailed_stuck(rd) ==
  {[item |-> ItemErr, rd |-> rd, skipped |-> {},
    queued |-> <<>>, opened |-> <<>>]}

\* the outcomes of a read that fails: Some(Err(e)) is returned, and the
\* cursor either goes on after the entry or is at its end (a ReadDir may or
\* may not end its stream on an error: the standard library does not say)
ReadFailed(rd) ==
  {[item |-> ItemErr, rd |-> [rd EXCEPT !.it = Tail(@)], skipped |-> {},
    queued |-> <<>>, opened |-> <<>>],
   [item |-> ItemErr, rd |-> [rd EXCEPT !.it = <<>>], skipped |-> {},
    queued |-> <<>>, opened |-> <<>>]}

RECURSIVE next(_, _, _)
\* Iterator::next of RecursiveReadDir: every outcome [item, rd, skipped] of
\* one call.  With failing, one of the directory reads of the call (an entry
\* of the cursor, or the opening of a dequeued directory) returns an error;
\* without, none does.  reversed is the order in which a directory opened by
\* the call lists its entries.  stat records how the cutoff test of the
\* yielded file went: "none" (no cutoff), "ok", "err" (fs::metadata or
\* modified() failed); skipped are the files the cutoff test of the call
\* rejected; queued and opened are the directories the call pushed on the
\* queue and took off it, in the order it did.
next(rd, failing, reversed) ==
  IF rd.it # <<>> THEN
    LET path == Head(rd.it)
        rest == [rd EXCEPT !.it = Tail(@)]
        yield(stat) == IF failing THEN {}
                       ELSE {[item |-> ItemOk(path, stat), rd |-> rest,
                              skipped |-> {},
                              queued |-> <<>>, opened |-> <<>>]}
    IN (IF failing THEN ReadFailed(rd) ELSE {}) \cup
       (IF is_hidden(path) THEN next(rest, failing, reversed)
        ELSE IF is_dir(path)
          THEN {[o EXCEPT !.queued = <<path>> \o @] :
                  o \in next([rest EXCEPT !.dirs = push_back(@, path)],
                             failing, reversed)}
        ELSE IF ~is_index_target(path) THEN next(rest, failing, reversed)
        ELSE IF rd.last_updated_at # None
          THEN UNION {
                 IF ~unwrap_or(is_updated_after(path, rd.last_updated_at,
                                                statOk), TRUE)
                   THEN {AlsoSkipped(o, path) :
                           o \in next(rest, failing, reversed)}
                   ELSE yield(IF statOk THEN "ok" ELSE "err")
                 : statOk \in BOOLEAN }
        ELSE yield("none"))
  ELSE IF rd.dirs = <<>>
    THEN IF failing THEN {}
         ELSE {[item |-> ItemNone, rd |-> rd, skipped |-> {},
                queued |-> <<>>, opened |-> <<>>]}
  ELSE LET dir == Head(rd.dirs)
           popped == [rd EXCEPT !.dirs = Tail(@)]
           listing == IF reversed THEN Reverse(Entries(dir)) ELSE Entries(dir)
       IN (IF failing
             THEN {[item |-> ItemErr, rd |-> popped, skipped |-> {},
                    queued |-> <<>>, opened |-> <<dir>>]}
             ELSE {}) \cup
          {[o EXCEPT !.opened = <<dir>> \o @] :
             o \in next([popped EXCEPT !.it = listing], failing, reversed)}

(***************************************************************************)
(* The external engine: an IndexWriter queues deletes and adds; commit     *)
(* applies them in the order issued, a delete removing every document with *)
(* that id that was added before it.  Dropping the writer discards what is *)
(* queued.                                                                 *)
(***************************************************************************)
\* a stored document; its updated_at (the second it was indexed at) is left
\* out: no operation of the indexer reads it back
NoDoc == [id |-> <<>>, title |-> <<>>, body |-> <<>>, source |-> <<>>,
          path |-> <<>>]

OpDelete(id) == [op |-> "delete", id |-> id, doc |-> NoDoc]
OpAdd(doc) == [op |-> "add", id |-> doc.id, doc |-> doc]

\* the bag without the documents whose id field is id
DeleteTerm(bag, id) == [d \in {x \in DOMAIN bag : x.id # id} |-> bag[d]]

RECURSIVE ApplyOps(_, _)
ApplyOps(bag, ops) ==
  IF ops = <<>> THEN bag
  ELSE LET o == Head(ops)
       IN ApplyOps(IF o.op = "delete" THEN DeleteTerm(bag, o.id)
                   ELSE bag (+) SetToBag({o.doc}),
                   Tail(ops))

\* how many documents a commit of the queued operations inserts
Adds(ops) == Cardinality({i \in 1..Len(ops) : ops[i].op = "add"})

\* how many committed documents carry the id
DocsWithId(bag, id) ==
  LET ds == {d \in DOMAIN bag : d.id = id}
      RECURSIVE Sum(_)
      Sum(S) == IF S = {} THEN 0
                ELSE LET d == CHOOSE x \in S : TRUE IN bag[d] + Sum(S \ {d})
  IN Sum(ds)

(***************************************************************************)
(* TimestampManager (src/index.rs)                                         *)
(***************************************************************************)
\* impl Serialize for TimestampKey
SerializeKey(key) == key[1] \o <<":">> \o key[2]

\* impl Deserialize for TimestampKey: <<TRUE, key>>, or <<FALSE, _>> when
\* splitn(2, ":") does not give two parts
DeserializeKey(s) ==
  LET n == IndexOf(s, ":")
  IN IF n = 0 THEN <<FALSE, <<>>>>
     ELSE <<TRUE, TimestampKey(SubSeq(s, 1, n - 1), Drop(s, n))>>

\* toml::to_string(self): the table as a set of <<key string, time>> lines
SerializeTable(timestamps) ==
  {<<SerializeKey(k), timestamps[k]>> : k \in DOMAIN timestamps}

\* toml::from_str: <<TRUE, timestamps>>, or <<FALSE, _>> on a key that does
\* not parse or a key that occurs twice
DeserializeTable(lines) ==
  LET strs == {l[1] : l \in lines}
      keys == {DeserializeKey(x)[2] : x \in strs}
  IN IF \/ \E x \in strs : ~DeserializeKey(x)[1]
        \/ \E l1, l2 \in lines : l1[1] = l2[1] /\ l1 # l2
       THEN <<FALSE, EmptyMap>>
       ELSE <<TRUE,
              [k \in keys |->
                 (CHOOSE l \in lines : DeserializeKey(l[1])[2] = k)[2]]>>

\* a key parser that takes a string without ":" as an index name with an
\* empty source name
TimestampManager_new_lenient(dirOk, readOk) ==
  LET strs == {l[1] : l \in disk}
      key(x) == IF DeserializeKey(x)[1] THEN DeserializeKey(x)[2]
                ELSE TimestampKey(x, <<>>)
  IN IF ~dirOk \/ (disk # {} /\ ~readOk) THEN <<FALSE, NoTms>>
     ELSE <<TRUE,
            [some |-> TRUE,
             timestamps |->
               [k \in {key(x) : x \in strs} |->
                  (CHOOSE l \in disk : key(l[1]) = k)[2]]]>>

\* TimestampManager::new; dirOk is whether data_dir() succeeds, readOk
\* whether the read of the file does.  No file is there (exists() is false)
\* until a save has written one, and a save writes at least one line.
\* <<TRUE, manager>> or <<FALSE, _>>
TimestampManager_new(dirOk, readOk) ==
  IF ~dirOk THEN <<FALSE, NoTms>>
  ELSE IF disk = {}
    THEN <<TRUE, [some |-> TRUE, timestamps |-> EmptyMap]>>
  ELSE IF ~readOk THEN <<FALSE, NoTms>>
  ELSE LET t == DeserializeTable(disk)
       IN IF t[1] THEN <<TRUE, [some |-> TRUE, timestamps |-> t[2]]>>
          ELSE <<FALSE, NoTms>>

\* TimestampManager::get_timestamp
get_timestamp(m, index, source) ==
  IF TimestampKey(index, source) \in DOMAIN m.timestamps
    THEN m.timestamps[TimestampKey(index, source)]
    ELSE None

\* an insert that keeps no other entry
MapInsert_alone(m, k, v) == [x \in {k} |-> v]

\* HashMap::insert
MapInsert(m, k, v) == [x \in DOMAIN m \cup {k} |-> IF x = k THEN v ELSE m[x]]

\* TimestampManager::update, the in-memory half
update(m, index, source, datetime) ==
  [m EXCEPT !.timestamps = MapInsert(@, TimestampKey(index, source), datetime)]

(***************************************************************************)
(* Indexer (src/index.rs)                                                  *)
(***************************************************************************)
\* a byte that is not valid UTF-8
InvalidByte == "<ff>"

\* Path::to_str: <<TRUE, string>> or <<FALSE, _>> for None
to_str(path) ==
  IF \E i \in 1..Len(path) : path[i] = InvalidByte
    THEN <<FALSE, <<>>>>
    ELSE <<TRUE, path>>

\* the Document Identifier
DocId(source, relative_path) == source \o <<":">> \o relative_path

\* a title that loses one leading "#" only
Title_one_hash(body) ==
  LET l == FirstLine(body)
  IN trim(IF l # <<>> /\ l[1] = "#" THEN Tail(l) ELSE l)

\* the title: the first line without its leading "#"s, trimmed
Title(body) == trim(trim_start_matches(FirstLine(body), "#"))

\* an index_inner that queues no delete before the insert
index_inner_no_delete(source, root, path, readOk) ==
  LET rel == strip_prefix(path, root)
      relative_path == trim_start_matches(rel[2], SEP)
      id == DocId(source, relative_path)
      body == Body(path)
  IN IF ~rel[1] THEN [ret |-> "false", ops |-> <<>>]
     ELSE IF ~readOk THEN [ret |-> "err", ops |-> <<>>]
     ELSE IF body = <<>> THEN [ret |-> "false", ops |-> <<>>]
     ELSE [ret |-> "true",
           ops |-> <<OpAdd([id |-> id, title |-> Title(body), body |-> body,
                            source |-> source, path |-> relative_path])>>]

\* an index_inner that reads the file first and returns on an empty body
\* before it has queued the delete
index_inner_read_first(source, root, path, readOk) ==
  LET rel == strip_prefix(path, root)
      relative_path == trim_start_matches(rel[2], SEP)
      id == DocId(source, relative_path)
      body == Body(path)
  IN IF ~rel[1] THEN [ret |-> "false", ops |-> <<>>]
     ELSE IF ~readOk THEN [ret |-> "err", ops |-> <<>>]
     ELSE IF body = <<>> THEN [ret |-> "false", ops |-> <<>>]
     ELSE [ret |-> "true",
           ops |-> <<OpDelete(id),
                     OpAdd([id |-> id, title |-> Title(body), body |-> body,
                            source |-> source, path |-> relative_path])>>]

\* Indexer::index_inner: what it returns ("true", "false", "err") and the
\* operations it queues in the writer; readOk is whether fs::read_to_string
\* succeeds
index_inner(source, root, path, readOk) ==
  LET path_string == to_str(path)
      rel == IF to_str(root)[1]
               THEN strip_prefix(path_string[2], to_str(root)[2])
               ELSE <<FALSE, <<>>>>
      relative_path == trim_start_matches(rel[2], SEP)
      id == DocId(source, relative_path)
      body == Body(path)
  IN IF ~path_string[1] THEN [ret |-> "false", ops |-> <<>>]
     ELSE IF ~rel[1] THEN [ret |-> "false", ops |-> <<>>]
     ELSE IF ~readOk THEN [ret |-> "err", ops |-> <<OpDelete(id)>>]
     ELSE IF body = <<>> THEN [ret |-> "false", ops |-> <<OpDelete(id)>>]
     ELSE [ret |-> "true",
           ops |-> <<OpDelete(id),
                     OpAdd([id |-> id, title |-> Title(body), body |-> body,
                            source |-> source, path |-> relative_path])>>]

\* a read_source that applies the stored watermark in full mode too
read_source_always_cutoff(listing, source, index) ==
  LET rd == RecursiveReadDir_new(listing)
  IN IF tms.some /\ get_timestamp(tms, index, source) # None
       THEN updated_after(rd, get_timestamp(tms, index, source))
       ELSE rd

\* Indexer::read_source once fs::read_dir(root) has succeeded with listing
read_source(listing, source, index) ==
  LET rd == RecursiveReadDir_new(listing)
  IN IF increment /\ tms.some /\ get_timestamp(tms, index, source) # None
       THEN updated_after(rd, get_timestamp(tms, index, source))
       ELSE rd

\* the time update_timestamp would store if it read the clock itself
StampCompletion == clock

\* the time Indexer::index hands to update_timestamp
Stamp == start_at

(***************************************************************************)
(* search.rs: Doc                                                          *)
(***************************************************************************)
\* a Doc; its updated_at is left out: absolute_path does not read it
Doc(source, path) == [title |-> <<>>, source |-> source, path |-> path]
NoHit == Doc(<<>>, <<>>)

NoResult == [kind |-> "none", path |-> <<>>]
Ok(path) == [kind |-> "ok", path |-> path]
Err == [kind |-> "err", path |-> <<>>]

\* a lookup that falls back to the stored path when the source is unknown
absolute_path_or_stored(d, srcs) ==
  IF d.source \in DOMAIN srcs
    THEN Ok(PathJoin(srcs[d.source], d.path))
    ELSE Ok(d.path)

\* Doc::absolute_path
absolute_path(d, srcs) ==
  IF d.source \in DOMAIN srcs
    THEN Ok(PathJoin(srcs[d.source], d.path))
    ELSE Err

\* the Docs and the mappings absolute_path is applied to
SrcOther == <<"o">>
HitSources == {SrcNotes, SrcMemo, SrcOther}
HitPaths == {<<>>, NameA, NameSub \o <<SEP>> \o NameB, <<"2", SEP>> \o NameA,
             NameB, FileA}
Mappings == {EmptyPaths,
             [n \in {SrcNotes} |-> RootNotes],
             [n \in {SrcMemo} |-> RootMemo],
             Sources,
             [n \in SourceNames |-> IF n = SrcNotes THEN RootMemo ELSE RootNotes]}

(***************************************************************************)
(* Init                                                                    *)
(***************************************************************************)
Init ==
  /\ clock = 0
  /\ fsBody = [f \in MutableFiles |-> BodyB]
  /\ fsMtime = [f \in MutableFiles |-> 0]
  /\ disk = {}
  /\ committed = EmptyBag
  /\ pc = "none"
  /\ tms = NoTms
  /\ count = 0
  /\ increment = TRUE
  /\ todo = {}
  /\ source_name = NoSource
  /\ start_at = None
  /\ added = 0
  /\ read_dir = NoWalker
  /\ pending = <<>>
  /\ file_path = NoPath
  /\ result = "none"
  /\ passes = 0
  /\ yielded = {}
  /\ skipped = {}
  /\ lastStart = [k \in Keys |-> None]
  /\ produced = <<>>
  /\ enqueued = <<>>
  /\ opened = <<>>
  /\ index_mode = NoFlags
  /\ indexed = 0
  /\ self = NoHit
  /\ sources = Sources
  /\ found = NoResult

\* a Doc and a mapping in the hands of a caller of absolute_path
InitDoc ==
  /\ clock = 0
  /\ fsBody = [f \in MutableFiles |-> BodyA]
  /\ fsMtime = [f \in MutableFiles |-> 0]
  /\ disk = {}
  /\ committed = EmptyBag
  /\ pc = "none"
  /\ tms = NoTms
  /\ count = 0
  /\ increment = TRUE
  /\ todo = {}
  /\ source_name = NoSource
  /\ start_at = None
  /\ added = 0
  /\ read_dir = NoWalker
  /\ pending = <<>>
  /\ file_path = NoPath
  /\ result = "none"
  /\ passes = 0
  /\ yielded = {}
  /\ skipped = {}
  /\ lastStart = [k \in Keys |-> None]
  /\ produced = <<>>
  /\ enqueued = <<>>
  /\ opened = <<>>
  /\ index_mode = NoFlags
  /\ indexed = 0
  /\ self \in {Doc(n, p) : n \in HitSources, p \in HitPaths}
  /\ sources \in Mappings
  /\ found = NoResult

\* history: what index_inner saw of the file it processed: the identifier it
\* computed, the body it read, and the bodies the committed documents of
\* that identifier had
Processed(source, path, stat) ==
  LET id == DocId(source,
                  trim_start_matches(strip_prefix(path, sources[source])[2], SEP))
  IN [source |-> source, path |-> path, stat |-> stat, mtime |-> Mtime(path),
      id |-> id, body |-> Body(path),
      had |-> {d.body : d \in {x \in DOMAIN committed : x.id = id}}]

\* the call's locals once it has returned (or the process has stopped): the
\* writer is dropped, and what it had queued with it
CallOver ==
  /\ todo' = {}
  /\ source_name' = NoSource
  /\ start_at' = None
  /\ added' = 0
  /\ read_dir' = NoWalker
  /\ pending' = <<>>
  /\ file_path' = NoPath
  /\ yielded' = {}
  /\ skipped' = {}

\* a closure that catches the error of its source: the sources left are
\* still processed
ReturnPerSource(r) ==
  /\ pc' = IF r = "err" /\ todo # {} THEN "source" ELSE "ready"
  /\ result' = r
  /\ todo' = IF r = "err" THEN todo ELSE {}
  /\ source_name' = NoSource
  /\ start_at' = None
  /\ added' = 0
  /\ read_dir' = NoWalker
  /\ pending' = <<>>
  /\ file_path' = NoPath
  /\ yielded' = {}
  /\ skipped' = {}

\* the call returns r (an error through ? and try_for_each, or Ok(()))
Return(r) ==
  /\ pc' = "ready"
  /\ result' = r
  /\ CallOver

(***************************************************************************)
(* The environment                                                         *)
(***************************************************************************)
Tick ==
  /\ clock < MaxTime
  /\ clock' = clock + 1
  /\ UNCHANGED <<fsBody, fsMtime, disk, committed, pc, tms, count,
                 increment, todo, source_name, start_at, added, read_dir,
                 pending, file_path, result, passes, yielded, skipped,
                 lastStart, searchVars, walkVars, index_mode, indexed>>

\* a file is rewritten (or touched): its modification time is the time of
\* the write
Modify ==
  /\ \E f \in MutableFiles, b \in Bodies :
       /\ fsBody' = [fsBody EXCEPT ![f] = b]
       /\ fsMtime' = [fsMtime EXCEPT ![f] = clock]
  /\ UNCHANGED <<clock, disk, committed, pc, tms, count, increment, todo,
                 passVars, pending, file_path, result, passes, lastStart,
                 searchVars, walkVars, index_mode, indexed>>

(***************************************************************************)
(* The process: Indexer::new, main's mode selection, and the passes         *)
(***************************************************************************)
\* the paths index_file is called with
FilePaths == {FileA, FileM}

\* the Indexer dropped with its process
NoIndexer ==
  /\ tms' = NoTms
  /\ count' = 0
  /\ increment' = TRUE
  /\ indexed' = 0

\* Indexer::new: the watermark table is loaded, and a failure leaves tms None
Indexer_new ==
  /\ pc = "none"
  /\ passes < MaxPasses
  /\ \E dirOk, readOk \in BOOLEAN :
       LET m == TimestampManager_new(dirOk, readOk)
       IN tms' = IF m[1] THEN m[2] ELSE NoTms
  /\ count' = 0
  /\ indexed' = 0
  /\ increment' = TRUE
  /\ pc' = "new"
  /\ result' = "none"
  /\ UNCHANGED <<envVars, disk, committed, todo, passVars, pending,
                 file_path, passes, lastStart, searchVars, walkVars, index_mode>>

\* main, Commands::Index: the flags full and increment of the command line
\* (clap parses them as a group of which at most one is given), as the match
\* that follows Indexer::new reads them
main_args ==
  /\ pc = "new"
  /\ \E full, inc \in BOOLEAN :
       /\ ~(full /\ inc)
       /\ index_mode' = [full |-> full, increment |-> inc]
  /\ pc' = "mode"
  /\ UNCHANGED <<envVars, disk, committed, indexerVars, todo, passVars,
                 pending, file_path, result, passes, lastStart, searchVars,
                 walkVars, indexed>>

\* a match that falls back to a full run whenever the store is missing
main_mode_fallback ==
  /\ pc = "mode"
  /\ LET full == index_mode.full
         inc == index_mode.increment
     IN \/ /\ full
           /\ increment' = FALSE
        \/ /\ ~full /\ inc /\ tms.some
           /\ increment' = TRUE
        \/ /\ ~full /\ ~inc /\ tms.some
           /\ UNCHANGED increment
        \/ /\ ~full /\ ~tms.some
           /\ increment' = FALSE
  /\ pc' = "ready"
  /\ index_mode' = NoFlags
  /\ UNCHANGED <<envVars, disk, committed, tms, count, result, todo,
                 passVars, pending, file_path, passes, lastStart, searchVars,
                 walkVars, indexed>>

\* main, Commands::Index: the match on (full, increment, is_incrementable)
main_mode ==
  /\ pc = "mode"
  /\ LET full == index_mode.full
         inc == index_mode.increment
     IN \/ /\ full
           /\ increment' = FALSE
           /\ pc' = "ready"
           /\ UNCHANGED <<tms, count, indexed, result>>
        \/ /\ ~full /\ inc /\ tms.some
           /\ increment' = TRUE
           /\ pc' = "ready"
           /\ UNCHANGED <<tms, count, indexed, result>>
        \/ /\ ~full /\ inc /\ ~tms.some
           \* process::exit(1)
           /\ pc' = "none"
           /\ result' = "exit"
           /\ NoIndexer
        \/ /\ ~full /\ ~inc /\ tms.some
           /\ pc' = "ready"
           /\ UNCHANGED <<tms, count, indexed, increment, result>>
        \/ /\ ~full /\ ~inc /\ ~tms.some
           /\ increment' = FALSE
           /\ pc' = "ready"
           /\ UNCHANGED <<tms, count, indexed, result>>
  /\ index_mode' = NoFlags
  /\ UNCHANGED <<envVars, disk, committed, todo, passVars, pending,
                 file_path, passes, lastStart, searchVars, walkVars>>

\* a caller other than main: Indexer::new().set_increment(inc)
set_increment ==
  /\ pc = "new"
  /\ \E inc \in BOOLEAN : increment' = inc
  /\ pc' = "ready"
  /\ UNCHANGED <<envVars, disk, committed, tms, count, todo, passVars,
                 pending, file_path, result, passes, lastStart, searchVars, walkVars, index_mode, indexed>>

\* Indexer::index, lines 54-55: the schema fields and the writer
IndexCall ==
  /\ \E writerOk \in BOOLEAN :
       \/ /\ writerOk
          /\ pc' = "source"
          /\ todo' = SourceNames
          /\ result' = "none"
          /\ UNCHANGED <<passVars, pending, file_path>>
       \/ /\ ~writerOk
          /\ Return("err")
  /\ UNCHANGED <<envVars, disk, committed, indexerVars, passes, lastStart, searchVars, walkVars, index_mode, indexed>>

\* a caller other than main calls Indexer::index
index_call ==
  /\ pc = "ready"
  /\ passes < MaxPasses
  /\ IndexCall

\* main, lines 98-110: the one call of Indexer::index on the index
main_index ==
  /\ pc = "ready"
  /\ result = "none"
  /\ passes < MaxPasses
  /\ IndexCall

\* Indexer::index, lines 59-64: the closure starts on the next source of
\* the map (a HashMap iterates in any order), or try_for_each is done
index_source ==
  /\ pc = "source"
  /\ \/ /\ todo = {}
        /\ Return("ok")
        /\ UNCHANGED passes
     \/ \E s \in todo, dirOk \in BOOLEAN :
        \E listing \in Listings(Sources[s]) :
          /\ passes < MaxPasses
          /\ passes' = passes + 1
          /\ \/ /\ dirOk
                /\ start_at' = clock
                /\ added' = 0
                /\ source_name' = s
                /\ todo' = todo \ {s}
                /\ read_dir' = read_source(listing, s, IndexDocs)
                /\ yielded' = {}
                /\ skipped' = {}
                /\ pc' = "walk"
                /\ UNCHANGED <<pending, file_path, result>>
             \/ /\ ~dirOk
                /\ Return("err")
  /\ UNCHANGED <<envVars, disk, committed, indexerVars, lastStart, searchVars, walkVars, index_mode, indexed>>

\* Indexer::index, lines 65-76: one turn of the for loop
index_entry ==
  /\ pc = "walk"
  /\ \E failing \in BOOLEAN, reversed \in BOOLEAN :
       \E o \in next(read_dir, failing, reversed) :
         \/ /\ o.item.kind = "err"
            /\ Return("err")
         \/ /\ o.item.kind = "none"
            /\ read_dir' = o.rd
            /\ skipped' = skipped \cup o.skipped
            /\ pc' = "commit"
            /\ UNCHANGED <<todo, source_name, start_at, added, pending,
                           file_path, result, yielded>>
         \/ /\ o.item.kind = "ok"
            /\ \E readOk \in BOOLEAN :
                 LET r == index_inner(source_name, Sources[source_name],
                                      o.item.path, readOk)
                 IN \/ /\ r.ret = "err"
                       /\ Return("err")
                    \/ /\ r.ret # "err"
                       /\ pending' = pending \o r.ops
                       /\ added' = IF r.ret = "true" THEN added + 1 ELSE added
                       /\ read_dir' = o.rd
                       /\ yielded' = yielded \cup
                            {Processed(source_name, o.item.path, o.item.stat)}
                       /\ skipped' = skipped \cup o.skipped
                       /\ UNCHANGED <<todo, source_name, start_at, file_path,
                                      result, pc>>
  /\ UNCHANGED <<envVars, disk, committed, indexerVars, passes, lastStart, searchVars, walkVars, index_mode, indexed>>

\* a commit whose error is dropped: the pass goes on to update_timestamp
index_commit_unchecked ==
  /\ pc = "commit"
  /\ \E commitOk \in BOOLEAN :
       \/ /\ commitOk
          /\ committed' = ApplyOps(committed, pending)
          /\ indexed' = indexed + Adds(pending)
          /\ pending' = <<>>
          /\ pc' = "stamp"
          /\ lastStart' = [lastStart EXCEPT
                             ![TimestampKey(IndexDocs, source_name)] = start_at]
          /\ UNCHANGED <<todo, passVars, file_path, result>>
       \/ /\ ~commitOk
          /\ pc' = "stamp"
          /\ UNCHANGED <<committed, indexed, pending, lastStart, todo, passVars,
                         file_path, result>>
  /\ UNCHANGED <<envVars, disk, indexerVars, passes, searchVars, walkVars, index_mode>>

\* Indexer::index, line 77: index_writer.commit()?
index_commit ==
  /\ pc = "commit"
  /\ \E commitOk \in BOOLEAN :
       \/ /\ commitOk
          /\ committed' = ApplyOps(committed, pending)
          /\ indexed' = indexed + Adds(pending)
          /\ pending' = <<>>
          /\ pc' = "stamp"
          /\ lastStart' = [lastStart EXCEPT
                             ![TimestampKey(IndexDocs, source_name)] = start_at]
          /\ UNCHANGED <<todo, passVars, file_path, result>>
       \/ /\ ~commitOk
          /\ Return("err")
          /\ UNCHANGED <<committed, indexed, lastStart>>
  /\ UNCHANGED <<envVars, disk, indexerVars, passes, searchVars, walkVars, index_mode>>

\* an update that starts a table of its own when the store is None
index_update_timestamp_fresh ==
  /\ pc = "stamp"
  /\ \E saveOk \in BOOLEAN :
       /\ tms' = update(IF tms.some THEN tms
                        ELSE [some |-> TRUE, timestamps |-> EmptyMap],
                        IndexDocs, source_name, Stamp)
       /\ disk' = IF saveOk THEN SerializeTable(tms'.timestamps) ELSE disk
  /\ count' = count + added
  /\ pc' = "source"
  /\ source_name' = NoSource
  /\ start_at' = None
  /\ added' = 0
  /\ read_dir' = NoWalker
  /\ yielded' = {}
  /\ skipped' = {}
  /\ UNCHANGED <<envVars, committed, increment, todo, pending, file_path,
                 result, passes, lastStart, searchVars, walkVars, index_mode,
                 indexed>>

\* an update that takes the new entry back when the save fails
index_update_timestamp_rollback ==
  /\ pc = "stamp"
  /\ \E saveOk \in BOOLEAN :
       IF tms.some /\ saveOk
         THEN /\ tms' = update(tms, IndexDocs, source_name, Stamp)
              /\ disk' = SerializeTable(tms'.timestamps)
         ELSE UNCHANGED <<tms, disk>>
  /\ count' = count + added
  /\ pc' = "source"
  /\ source_name' = NoSource
  /\ start_at' = None
  /\ added' = 0
  /\ read_dir' = NoWalker
  /\ yielded' = {}
  /\ skipped' = {}
  /\ UNCHANGED <<envVars, committed, increment, todo, pending, file_path,
                 result, passes, lastStart, searchVars, walkVars, index_mode, indexed>>

\* Indexer::index, lines 78-81: update_timestamp (TimestampManager::update
\* and save) and self.count += count
index_update_timestamp ==
  /\ pc = "stamp"
  /\ \E saveOk \in BOOLEAN :
       IF tms.some
         THEN /\ tms' = update(tms, IndexDocs, source_name, Stamp)
              /\ disk' = IF saveOk THEN SerializeTable(tms'.timestamps) ELSE disk
         ELSE UNCHANGED <<tms, disk>>
  /\ count' = count + added
  /\ pc' = "source"
  /\ source_name' = NoSource
  /\ start_at' = None
  /\ added' = 0
  /\ read_dir' = NoWalker
  /\ yielded' = {}
  /\ skipped' = {}
  /\ UNCHANGED <<envVars, committed, increment, todo, pending, file_path,
                 result, passes, lastStart, searchVars, walkVars, index_mode, indexed>>

\* Indexer::index_file, lines 93-94
IndexFileCall(paths) ==
  /\ passes < MaxPasses
  /\ passes' = passes + 1
  /\ \E path \in paths, writerOk \in BOOLEAN :
       \/ /\ writerOk
          /\ pc' = "file"
          /\ todo' = DOMAIN sources
          /\ file_path' = path
          /\ result' = "none"
          /\ UNCHANGED <<passVars, pending>>
       \/ /\ ~writerOk
          /\ Return("err")
  /\ UNCHANGED <<envVars, disk, committed, indexerVars, lastStart, searchVars, walkVars, index_mode, indexed>>

\* index_file on a file of the configured tree
index_file_call ==
  /\ pc = "ready"
  /\ IndexFileCall(FilePaths)

\* Indexer::index_file, lines 98-111: the closure on the next source
index_file_source ==
  /\ pc = "file"
  /\ \/ /\ todo = {}
        /\ Return("ok")
        /\ UNCHANGED <<committed, count, indexed>>
     \/ \E s \in todo, readOk \in BOOLEAN, commitOk \in BOOLEAN :
          LET r == index_inner(s, sources[s], file_path, readOk)
          IN \/ /\ r.ret = "err"
                /\ Return("err")
                /\ UNCHANGED <<committed, count, indexed>>
             \/ /\ r.ret = "true"
                /\ commitOk
                /\ committed' = ApplyOps(committed, pending \o r.ops)
                /\ indexed' = indexed + Adds(pending \o r.ops)
                /\ pending' = <<>>
                /\ count' = count + 1
                /\ todo' = todo \ {s}
                /\ yielded' = yielded \cup {Processed(s, file_path, "none")}
                /\ UNCHANGED <<source_name, start_at, added, read_dir,
                               skipped, file_path, result, pc>>
             \/ /\ r.ret = "true"
                /\ ~commitOk
                /\ Return("err")
                /\ UNCHANGED <<committed, count, indexed>>
             \/ /\ r.ret = "false"
                /\ pending' = pending \o r.ops
                /\ todo' = todo \ {s}
                /\ yielded' = IF r.ops = <<>> THEN yielded
                              ELSE yielded \cup {Processed(s, file_path, "none")}
                /\ UNCHANGED <<source_name, start_at, added, read_dir,
                               skipped, file_path, result, pc, committed,
                               count, indexed>>
  /\ UNCHANGED <<envVars, disk, tms, increment, passes, lastStart, searchVars, walkVars, index_mode>>

\* the process ends: the Indexer is dropped
Exit ==
  /\ pc = "ready"
  /\ pc' = "none"
  /\ result' = "none"
  /\ NoIndexer
  /\ UNCHANGED <<envVars, disk, committed, todo, passVars, pending,
                 file_path, passes, lastStart, searchVars, walkVars, index_mode>>

\* the process stops in the middle of a call: what the writer had queued is
\* discarded with it
Crash ==
  /\ pc \in {"source", "walk", "commit", "stamp", "file"}
  /\ pc' = "none"
  /\ result' = "none"
  /\ NoIndexer
  /\ CallOver
  /\ UNCHANGED <<envVars, disk, committed, passes, lastStart, searchVars, walkVars, index_mode>>

\* the index command of main on the one configured index
Next ==
  \/ Tick
  \/ Modify
  \/ Indexer_new
  \/ main_args
  \/ main_mode
  \/ main_index
  \/ index_source
  \/ index_entry
  \/ index_commit
  \/ index_update_timestamp
  \/ Exit
  \/ Crash

Spec == Init /\ [][Next]_vars

\* a program that uses the Indexer as a library: any calls of index and
\* index_file, on files that change while the clock stands
NextFile ==
  \/ Modify
  \/ Indexer_new
  \/ set_increment
  \/ index_call
  \/ index_source
  \/ index_entry
  \/ index_commit
  \/ index_update_timestamp
  \/ index_file_call
  \/ index_file_source
  \/ Exit
  \/ Crash

SpecFile == Init /\ [][NextFile]_vars

(***************************************************************************)
(* A caller of Doc::absolute_path                                          *)
(***************************************************************************)
absolute_path_call ==
  /\ found = NoResult
  /\ found' = absolute_path(self, sources)
  /\ UNCHANGED <<envVars, disk, committed, pc, indexerVars, todo, passVars,
                 pending, file_path, result, passes, lastStart, self,
                 sources, walkVars, index_mode, indexed>>

NextDoc ==
  \/ absolute_path_call

SpecDoc == InitDoc /\ [][NextDoc]_vars

(***************************************************************************)
(* A caller that drives a RecursiveReadDir on its own: the iterator is     *)
(* public, and nothing stops a caller from calling next() after an error   *)
(* or after None                                                           *)
(***************************************************************************)
\* calls of next() on the walker
MaxNext == 7

\* RecursiveReadDir::new(root), with or without updated_after(cutoff)
walker_new ==
  /\ pc = "none"
  /\ produced = <<>>
  /\ \E s \in SourceNames, cutoff \in {None} \cup (0..MaxTime) :
     \E listing \in Listings(Sources[s]) :
       /\ source_name' = s
       /\ read_dir' = IF cutoff = None
                        THEN RecursiveReadDir_new(listing)
                        ELSE updated_after(RecursiveReadDir_new(listing), cutoff)
  /\ pc' = "iter"
  /\ UNCHANGED <<envVars, disk, committed, indexerVars, todo, start_at, added,
                 yielded, skipped, pending, file_path, result, passes,
                 lastStart, searchVars, walkVars, index_mode, indexed>>

\* one call of next() by the caller, whatever the last call returned
walker_next ==
  /\ pc = "iter"
  /\ Len(produced) < MaxNext
  /\ \E failing \in BOOLEAN, reversed \in BOOLEAN :
       \E o \in next(read_dir, failing, reversed) :
         /\ read_dir' = o.rd
         /\ produced' = Append(produced, o.item)
         /\ enqueued' = enqueued \o o.queued
         /\ opened' = opened \o o.opened
         /\ skipped' = skipped \cup o.skipped
  /\ UNCHANGED <<envVars, disk, committed, pc, indexerVars, todo, source_name,
                 start_at, added, yielded, pending, file_path, result, passes,
                 lastStart, searchVars, index_mode, indexed>>

NextWalk ==
  \/ walker_new
  \/ walker_next

\* RecursiveReadDir::new(dir) on a directory that is no configured source
walker_new_wide ==
  /\ pc = "none"
  /\ produced = <<>>
  /\ \E listing \in Listings(RootWide) :
       read_dir' = RecursiveReadDir_new(listing)
  /\ pc' = "iter"
  /\ UNCHANGED <<envVars, disk, committed, indexerVars, todo, source_name,
                 start_at, added, yielded, skipped, pending, file_path, result,
                 passes, lastStart, searchVars, walkVars, index_mode, indexed>>

NextWide ==
  \/ walker_new_wide
  \/ walker_next

SpecWide == Init /\ [][NextWide]_vars

SpecWalk == Init /\ [][NextWalk]_vars

\* a caller that goes on calling next(), as a for loop does
SpecWalkOn == SpecWalk /\ WF_vars(walker_next)

\* source names with and without the ":" of the identifier
IdNames == {<<"a">>, <<"b">>, <<"a", ":", "b">>}

\* two roots, neither the start of the other
IdRoots == {<<"/", "p">>, <<"/", "q">>}

\* the configurations of two sources of different names and different roots
IdSources ==
  {m \in UNION {[ns -> IdRoots] : ns \in SUBSET IdNames} :
     /\ Cardinality(DOMAIN m) = 2
     /\ \A n1, n2 \in DOMAIN m : n1 # n2 => m[n1] # m[n2]}

\* under each root, a file named with and a file named without the ":"
IdPaths == {EntryPath(r, n) : r \in IdRoots, n \in {<<"c">>, <<"b", ":", "c">>}}

\* an Indexer just constructed, and any of the configurations
InitIds ==
  /\ clock = 0
  /\ fsBody = [f \in MutableFiles |-> BodyB]
  /\ fsMtime = [f \in MutableFiles |-> 0]
  /\ disk = {}
  /\ committed = EmptyBag
  /\ pc = "ready"
  /\ tms = NoTms
  /\ count = 0
  /\ increment = TRUE
  /\ todo = {}
  /\ source_name = NoSource
  /\ start_at = None
  /\ added = 0
  /\ read_dir = NoWalker
  /\ pending = <<>>
  /\ file_path = NoPath
  /\ result = "none"
  /\ passes = 0
  /\ yielded = {}
  /\ skipped = {}
  /\ lastStart = [k \in Keys |-> None]
  /\ produced = <<>>
  /\ enqueued = <<>>
  /\ opened = <<>>
  /\ index_mode = NoFlags
  /\ indexed = 0
  /\ self = NoHit
  /\ sources \in IdSources
  /\ found = NoResult

\* index_file on a file of one of the two sources
index_file_named ==
  /\ pc = "ready"
  /\ IndexFileCall(IdPaths)

NextIds ==
  \/ index_file_named
  \/ index_file_source

SpecIds == InitIds /\ [][NextIds]_vars

\* the lines a persisted table may hold: the keys of the configured pairs
\* and a key without the ":"
TableLines ==
  {<<k, t>> : k \in {SerializeKey(x) : x \in Keys} \cup {IndexDocs},
              t \in 0..MaxTime}

\* a process that finds any table, or none
InitLoad ==
  /\ clock = 0
  /\ fsBody = [f \in MutableFiles |-> BodyB]
  /\ fsMtime = [f \in MutableFiles |-> 0]
  /\ disk \in SUBSET TableLines
  /\ committed = EmptyBag
  /\ pc = "none"
  /\ tms = NoTms
  /\ count = 0
  /\ increment = TRUE
  /\ todo = {}
  /\ source_name = NoSource
  /\ start_at = None
  /\ added = 0
  /\ read_dir = NoWalker
  /\ pending = <<>>
  /\ file_path = NoPath
  /\ result = "none"
  /\ passes = 0
  /\ yielded = {}
  /\ skipped = {}
  /\ lastStart = [k \in Keys |-> None]
  /\ produced = <<>>
  /\ enqueued = <<>>
  /\ opened = <<>>
  /\ index_mode = NoFlags
  /\ indexed = 0
  /\ self = NoHit
  /\ sources = Sources
  /\ found = NoResult

\* the index command up to its match on the mode
NextLoad ==
  \/ Indexer_new
  \/ main_args
  \/ main_mode

SpecLoad == InitLoad /\ [][NextLoad]_vars

\* the longest content of the file index_file is run on
MaxBody == 4

\* the contents of at most MaxBody characters
FileBodies == UNION {[1..n -> {"#", " ", "a", "\n"}] : n \in 0..MaxBody}

\* a file of any content, and an Indexer just constructed where no
\* watermark table could be loaded
InitFile ==
  /\ clock = 0
  /\ fsBody \in [MutableFiles -> FileBodies]
  /\ fsMtime = [f \in MutableFiles |-> 0]
  /\ disk = {}
  /\ committed = EmptyBag
  /\ pc = "ready"
  /\ tms = NoTms
  /\ count = 0
  /\ increment = TRUE
  /\ todo = {}
  /\ source_name = NoSource
  /\ start_at = None
  /\ added = 0
  /\ read_dir = NoWalker
  /\ pending = <<>>
  /\ file_path = NoPath
  /\ result = "none"
  /\ passes = 0
  /\ yielded = {}
  /\ skipped = {}
  /\ lastStart = [k \in Keys |-> None]
  /\ produced = <<>>
  /\ enqueued = <<>>
  /\ opened = <<>>
  /\ index_mode = NoFlags
  /\ indexed = 0
  /\ self = NoHit
  /\ sources = Sources
  /\ found = NoResult

\* index_file on a file of any content
NextBody ==
  \/ index_file_call
  \/ index_file_source

SpecBody == InitFile /\ [][NextBody]_vars

(***************************************************************************)
(* The watermark store on its own, with index and source names of the      *)
(* configuration that may hold the ":" of the key string                   *)
(***************************************************************************)
\* entries of a table
MaxKeys == 2

\* TimestampManager::new in a process that has just started
store_new ==
  /\ pc = "none"
  /\ LET m == TimestampManager_new(TRUE, TRUE)
     IN tms' = IF m[1] THEN m[2] ELSE NoTms
  /\ pc' = "ready"
  /\ UNCHANGED <<envVars, disk, committed, count, increment, todo, passVars,
                 pending, file_path, result, passes, lastStart, searchVars,
                 walkVars, index_mode, indexed>>

\* TimestampManager::update: the insert and the save
store_update ==
  /\ pc = "ready"
  /\ tms.some
  /\ \E index \in IdNames, source \in IdNames, datetime \in 0..MaxTime,
        saveOk \in BOOLEAN :
       /\ \/ TimestampKey(index, source) \in DOMAIN tms.timestamps
          \/ Cardinality(DOMAIN tms.timestamps) < MaxKeys
       /\ tms' = update(tms, index, source, datetime)
       /\ disk' = IF saveOk THEN SerializeTable(tms'.timestamps) ELSE disk
  /\ UNCHANGED <<envVars, committed, pc, count, increment, todo, passVars,
                 pending, file_path, result, passes, lastStart, searchVars,
                 walkVars, index_mode, indexed>>

\* the process ends and the store in memory with it
store_drop ==
  /\ pc = "ready"
  /\ pc' = "none"
  /\ tms' = NoTms
  /\ UNCHANGED <<envVars, disk, committed, count, increment, todo, passVars,
                 pending, file_path, result, passes, lastStart, searchVars,
                 walkVars, index_mode, indexed>>

NextKeys ==
  \/ store_new
  \/ store_update
  \/ store_drop

SpecKeys == Init /\ [][NextKeys]_vars

(***************************************************************************)
(* Vocabulary of the properties                                            *)
(***************************************************************************)
\* the pair of the pass under way
PassKey == TimestampKey(IndexDocs, source_name)

\* the watermark of a pair in memory and in the persisted table
MemWatermark(k) == get_timestamp(tms, k[1], k[2])
DiskWatermark(k) ==
  LET ls == {l \in disk : l[1] = SerializeKey(k)}
  IN IF ls = {} THEN None ELSE (CHOOSE l \in ls : TRUE)[2]

\* a component of path below root starts with "."
HiddenBelow(path, root) ==
  LET rel == Drop(path, Len(root) + 1)
  IN \E i \in 1..Len(rel) : rel[i] = "." /\ (i = 1 \/ rel[i - 1] = SEP)

\* the indexable files of a source: regular, md or txt, reachable from the
\* root through directories that are not hidden
IndexTargets(source) ==
  {f \in Files : /\ IsUnder(f, Sources[source])
                 /\ is_index_target(f)
                 /\ ~HiddenBelow(f, Sources[source])}

\* a path that does not start at the root directory
IsRelative(path) == path = <<>> \/ path[1] # SEP

\* the sources whose directory tree holds the file
SourcesOf(path) == {s \in SourceNames : IsUnder(path, Sources[s])}

(***************************************************************************)
(* Properties                                                              *)
(***************************************************************************)
\* C1: the committed index holds at most one document per Document
\* Identifier, and once a pass or a single-file call has committed a file it
\* read with a non-empty content, the one document of that identifier
\* carries the content just read (SpecFile).
C1_OneDocPerId ==
  /\ \A d \in DOMAIN committed :
       /\ committed[d] = 1
       /\ \A e \in DOMAIN committed : e.id = d.id => e = d
  /\ pc \in {"stamp", "file"} =>
       \A r \in yielded :
         r.body # <<>> =>
           /\ DocsWithId(committed, r.id) = 1
           /\ \A d \in DOMAIN committed : d.id = r.id => d.body = r.body

\* C1 witness: a file whose identifier had a committed document of another
\* content has been indexed again and committed
C1_Reindexed ==
  /\ pc \in {"stamp", "file"}
  /\ \E r \in yielded : r.body # <<>> /\ r.had # {} /\ r.body \notin r.had

\* C2: the watermark of a pair changes, in memory or on disk, only in the
\* update_timestamp step that follows the commit of a pass, and only to the
\* start time of the last committed pass of that pair: a failed walk, a
\* failed commit and a stop before the commit leave it as it was (Spec).
C2_WatermarkAfterCommit ==
  [][\A k \in Keys :
       /\ (pc # "none" /\ pc' # "none" /\ MemWatermark(k)' # MemWatermark(k))
            => /\ pc = "stamp"
               /\ k = PassKey
               /\ lastStart[k] = start_at
               /\ MemWatermark(k)' = start_at
       /\ DiskWatermark(k)' # DiskWatermark(k)
            => /\ pc = "stamp"
               /\ lastStart[k] # None
               /\ DiskWatermark(k)' = lastStart[k]]_vars

\* C2 witness: a pass has been committed and its watermark is stored, in
\* memory and on disk
C2_Stamped ==
  /\ pc = "source"
  /\ \E k \in Keys : /\ MemWatermark(k) # None
                     /\ MemWatermark(k) = lastStart[k]
                     /\ DiskWatermark(k) = lastStart[k]

\* C3: a stored watermark is never later than the start of the last
\* committed pass of its pair, and a file the cutoff of a pass rejects has a
\* modification time that is not after that start: no file modified after
\* the start of the last committed pass is omitted (Spec).
C3_StartTimeWatermark ==
  /\ \A k \in Keys :
       /\ MemWatermark(k) <= lastStart[k]
       /\ DiskWatermark(k) <= lastStart[k]
  /\ pc \in {"walk", "commit"} =>
       \A r \in skipped : r.mtime <= lastStart[PassKey]

\* C3 witness: under a cutoff, a pass has yielded a file modified after the
\* start of the last committed pass and has rejected another
C3_PickedUp ==
  /\ pc \in {"walk", "commit"}
  /\ read_dir.last_updated_at # None
  /\ skipped # {}
  /\ \E r \in yielded : r.stat = "ok" /\ r.mtime > lastStart[PassKey]

\* C4: when a pass of Indexer::index has committed, no committed document
\* has the identifier of a file the pass read as empty (Spec).
C4_EmptyFileLeavesNoDocument ==
  pc = "stamp" =>
    \A r \in yielded : r.body = <<>> => DocsWithId(committed, r.id) = 0

\* C4 witness: a committed pass has read as empty a file whose identifier
\* had a committed document
C4_EmptiedAndCommitted ==
  /\ pc = "stamp"
  /\ \E r \in yielded : r.body = <<>> /\ r.had # {}

\* C5: when Indexer::index_file has gone through every source without an
\* error, no committed document has the identifier of a file it read as
\* empty, if that file lies under exactly one source (SpecFile).
C5_IndexFileRemovesEmptied ==
  (pc = "file" /\ todo = {}) =>
    \A r \in yielded :
      (r.body = <<>> /\ SourcesOf(r.path) = {r.source})
        => DocsWithId(committed, r.id) = 0

\* C5 witness of the case: index_file has gone through every source on a
\* file it read as empty and whose identifier had a committed document
C5_EmptiedFileIndexed ==
  /\ pc = "file"
  /\ todo = {}
  /\ \E r \in yielded :
       r.body = <<>> /\ r.had # {} /\ SourcesOf(r.path) = {r.source}

\* C6, as stated: under a cutoff T the walker yields only files whose
\* modification time is strictly greater than T (Spec).
C6_StrictlyNewer ==
  (pc \in {"walk", "commit"} /\ read_dir.last_updated_at # None) =>
    \A r \in yielded : r.mtime > read_dir.last_updated_at

\* C6, amended: under a cutoff T the walker yields only files whose
\* modification time is strictly greater than T or could not be read
\* (Spec).
C6_StrictlyNewerOrUnread ==
  (pc \in {"walk", "commit"} /\ read_dir.last_updated_at # None) =>
    \A r \in yielded :
      /\ r.stat \in {"ok", "err"}
      /\ r.stat = "ok" => r.mtime > read_dir.last_updated_at

\* C6 witness: under a cutoff, the walker has yielded a file whose
\* modification time it read, and has rejected a file modified exactly at
\* the cutoff
C6_CutoffApplied ==
  /\ pc \in {"walk", "commit"}
  /\ read_dir.last_updated_at # None
  /\ \E r \in yielded : r.stat = "ok"
  /\ \E q \in skipped : q.mtime = read_dir.last_updated_at

\* C7: the walker of a pass has a cutoff only when the Indexer is in
\* incremental mode, the watermark store is available and holds a watermark
\* for exactly the pair of the pass, and the cutoff is then that watermark;
\* a pass in full mode that has walked its source has processed every
\* indexable file of it (Spec).
C7_CutoffOnlyIncremental ==
  /\ pc \in {"walk", "commit"} =>
       read_dir.last_updated_at =
         IF increment /\ tms.some THEN MemWatermark(PassKey) ELSE None
  /\ (pc = "commit" /\ ~increment) =>
       IndexTargets(source_name) \subseteq {r.path : r \in yielded}

\* C7 witness: a pass in full mode has walked a source for which a
\* watermark is stored
C7_FullOverWatermark ==
  /\ pc = "commit"
  /\ ~increment
  /\ MemWatermark(PassKey) # None
  /\ yielded # {}

UnchangedSinceCutoff ==
  /\ read_dir.last_updated_at # None
  /\ \A f \in IndexTargets(source_name) : Mtime(f) <= read_dir.last_updated_at
  /\ \A r \in yielded : r.stat # "err"

C9_NoHiddenYielded ==
  pc \in {"walk", "commit", "stamp"} =>
    \A r \in yielded : ~HiddenBelow(r.path, Sources[source_name])

\* C9 witness: a walk without cutoff over the source that holds a hidden
\* file and a hidden directory is over, and has yielded exactly the
\* indexable files
C9_WalkedPastHidden ==
  /\ pc = "commit"
  /\ source_name = SrcNotes
  /\ \E f \in Files : IsUnder(f, RootNotes) /\ HiddenBelow(f, RootNotes)
  /\ {r.path : r \in yielded} = IndexTargets(SrcNotes)

\* C10: Doc::absolute_path returns an error exactly when the source of the
\* Doc is no key of the mapping; otherwise it returns the mapped root, a
\* separator and the stored relative path; and it changes neither the Doc
\* nor the mapping (SpecDoc).
C10_AbsolutePath ==
  /\ [](found # NoResult =>
          /\ found.kind = "err" <=> self.source \notin DOMAIN sources
          /\ (self.source \in DOMAIN sources /\ IsRelative(self.path)) =>
               found = Ok(sources[self.source] \o <<SEP>> \o self.path))
  /\ [][self' = self /\ sources' = sources]_vars

\* C10 witness: absolute_path has returned the path of a Doc whose source
\* is mapped and whose stored path is relative and not empty
C10_Resolved ==
  /\ found.kind = "ok"
  /\ self.path # <<>>
  /\ IsRelative(self.path)

\* C11: once the walker has produced an error value, no later call of next()
\* produces a file path: the error is the last item of the sequence
\* (SpecWalk).
C11_ErrorEndsSequence ==
  \A i, j \in 1..Len(produced) :
    (i < j /\ produced[i].kind = "err") => produced[j].kind # "ok"

\* C11 case: the walker has produced an error value and next() has been
\* called again
C11_CalledAfterError ==
  \E i \in 1..Len(produced) : produced[i].kind = "err" /\ i < Len(produced)

\* C12: an error while a source is processed in Indexer::index (its root or
\* a subdirectory cannot be read, a file's content cannot be read, the
\* commit fails) is what index returns; the step commits nothing, advances
\* no watermark in memory or in the persisted table, counts nothing, drops
\* what the writer had queued and leaves no source to process; and after
\* the error nothing of the call goes on.  What earlier sources committed
\* and stamped is untouched (Spec).
C12_ErrorEndsIndex ==
  /\ [](result = "err" => pc \in {"ready", "none"})
  /\ [][(pc \in {"source", "walk", "commit"} /\ result' = "err") =>
          /\ pc' = "ready"
          /\ todo' = {}
          /\ pending' = <<>>
          /\ committed' = committed
          /\ tms' = tms
          /\ disk' = disk
          /\ count' = count]_vars

\* C12 witness: index has returned an error from its second source, after
\* the first source was committed, counted and stamped; the source that
\* failed has no watermark
C12_FailedOnSecondSource ==
  /\ result = "err"
  /\ pc = "ready"
  /\ passes = 2
  /\ count > 0
  /\ tms.some
  /\ \E k1, k2 \in Keys :
       /\ MemWatermark(k1) # None
       /\ MemWatermark(k1) = lastStart[k1]
       /\ DiskWatermark(k1) = MemWatermark(k1)
       /\ MemWatermark(k2) = None
       /\ lastStart[k2] = None

\* C13: when the save of the watermark table fails in the update of a pass
\* (after the step the persisted table is not the table with the new
\* entry), the entry of the pair in memory holds the new timestamp, index
\* does not return because of it, the documents of the source are counted,
\* and the sources left are still to be processed (Spec).
C13_SaveFailureNotFatal ==
  [][(/\ pc = "stamp" /\ pc' = "source" /\ tms.some
      /\ disk' # SerializeTable(update(tms, IndexDocs, source_name,
                                       start_at).timestamps)) =>
       /\ get_timestamp(tms', IndexDocs, source_name) = start_at
       /\ count' = count + added
       /\ result' = "none"
       /\ todo' = todo]_vars

\* C13 witness: the save of a pass failed (the watermark in memory is the
\* start time of the committed pass, the persisted table has none), its
\* documents are counted, and index is about to go on with the source left
C13_SaveFailedRunGoesOn ==
  /\ pc = "source"
  /\ todo # {}
  /\ count > 0
  /\ tms.some
  /\ \E k \in Keys :
       /\ MemWatermark(k) # None
       /\ MemWatermark(k) = lastStart[k]
       /\ DiskWatermark(k) = None

\* C14: the match of main on the flags of the index command: with increment
\* requested and no watermark store, the process exits with an error; with
\* full requested the Indexer is set to a full run; with neither flag the
\* Indexer is incremental exactly if the store is there.  Up to the match
\* no source has been walked and nothing has been written to the index or
\* to the watermark table; a full run walks without a cutoff, and the mode
\* the match chose stays for the whole run (Spec).
C14_ModeSelection ==
  /\ [][(pc = "mode" /\ pc' # "mode") =>
          /\ (index_mode.increment /\ ~tms.some) =>
               (pc' = "none" /\ result' = "exit")
          /\ index_mode.full => (pc' = "ready" /\ ~increment')
          /\ (~index_mode.full /\ ~index_mode.increment) =>
               (pc' = "ready" /\ increment' = tms.some)]_vars
  /\ [](pc \in {"new", "mode"} =>
          (todo = {} /\ source_name = NoSource /\ pending = <<>>))
  /\ [][(pc \in {"none", "new", "mode"}) =>
          (committed' = committed /\ disk' = disk /\ passes' = passes)]_vars
  /\ []((pc \in {"walk", "commit", "stamp"} /\ ~increment) =>
          read_dir.last_updated_at = None)
  /\ [][(pc \in {"ready", "source", "walk", "commit", "stamp"}
           /\ pc' # "none") => increment' = increment]_vars

\* C14 witness: a process asked for an incremental run has exited at the
\* match, after an earlier process had indexed and persisted a watermark
C14_ExitedAtMatch ==
  /\ result = "exit"
  /\ pc = "none"
  /\ passes > 0
  /\ disk # {}

\* C15: in index_file only the sources whose directory tree holds the file
\* match it: for a source that does not hold the file no delete is queued
\* and no document is inserted, so every committed document is the document
\* of a file under the root of its source (SpecFile).
C15_OnlyContainingSources ==
  /\ pc = "file" => \A r \in yielded : r.source \in SourcesOf(r.path)
  /\ \A d \in DOMAIN committed :
       PathJoin(Sources[d.source], d.path) \in Files

\* C15 case: index_file has gone through a source whose tree does not hold
\* the file
C15_ForeignSourceDone ==
  /\ pc = "file"
  /\ \E s \in SourceNames \ todo : s \notin SourcesOf(file_path)

\* C16: the count of the Indexer is the number of documents its calls of
\* index and index_file have inserted and committed: whenever no pass is
\* between its commit and its count, count equals that number, and between
\* the two the documents of the pass are what is missing (SpecFile).
C16_CountIsCommittedInserts ==
  /\ pc # "stamp" => count = indexed
  /\ pc = "stamp" => count + added = indexed

\* C16 witness: a call on an Indexer that has counted documents has
\* returned an error from a later pass, a file being empty
C16_CountedThenFailed ==
  /\ pc = "ready"
  /\ result = "err"
  /\ count > 0
  /\ passes >= 2
  /\ \E f \in MutableFiles : Body(f) = <<>>

\* t is the first line of body (what precedes its first line feed) without
\* all its leading "#" and without the whitespace around what is left
IsTitleOf(t, body) ==
  LET ends == {n \in 0..Len(body) :
                 /\ \A k \in 1..n : body[k] # "\n"
                 /\ n < Len(body) => body[n + 1] = "\n"}
      line == SubSeq(body, 1, CHOOSE n \in ends : TRUE)
  IN \E h \in 0..Len(line) : \E i \in h..Len(line) : \E j \in i..Len(line) :
       /\ \A k \in 1..h : line[k] = "#"
       /\ h < Len(line) => line[h + 1] # "#"
       /\ \A k \in (h + 1)..i : IsWhitespace(line[k])
       /\ \A k \in (j + 1)..Len(line) : IsWhitespace(line[k])
       /\ t = SubSeq(line, i + 1, j)
       /\ t # <<>> => ~IsWhitespace(t[1]) /\ ~IsWhitespace(t[Len(t)])

\* C17: the title stored with a document is the first line of the body with
\* all leading "#" removed and the surrounding whitespace stripped: the
\* body "# Hello World\nbody" has the title "Hello World", the body
\* "No heading\nx" the title "No heading" (SpecBody).
C17_TitleIsFirstLine ==
  /\ \A d \in DOMAIN committed : IsTitleOf(d.title, d.body)
  /\ Title(<<"#", " ", "H", "e", "l", "l", "o", " ", "W", "o", "r", "l", "d",
             "\n", "b", "o", "d", "y">>)
       = <<"H", "e", "l", "l", "o", " ", "W", "o", "r", "l", "d">>
  /\ Title(<<"N", "o", " ", "h", "e", "a", "d", "i", "n", "g", "\n", "x">>)
       = <<"N", "o", " ", "h", "e", "a", "d", "i", "n", "g">>

\* C17 witness: a committed document whose body starts with two "#" and
\* ends its first line with a line feed, and whose title is what is between
C17_HeadingStored ==
  \E d \in DOMAIN committed :
    /\ Len(d.body) = 4
    /\ SubSeq(d.body, 1, 2) = <<"#", "#">>
    /\ d.body[4] = "\n"
    /\ d.title = <<"a">>

\* the Document Identifier index_inner computes for a file and a source, a
\* set: empty when the file has no relative path in the source
IdsOf(s, path) ==
  LET ops == index_inner(s, sources[s], path, TRUE).ops
  IN {ops[i].id : i \in 1..Len(ops)}

\* C18: the Document Identifier of a file indexed under one source differs
\* from the identifier of every file under a source of another name: no
\* committed document of one source has the identifier that indexing a
\* file of another source deletes and replaces (SpecIds).
C18_DisjointNamespaces ==
  \A d \in DOMAIN committed : \A s \in DOMAIN sources : \A p \in IdPaths :
    d.source # s => d.id \notin IdsOf(s, p)

\* C18 case: a document of each of two sources named "a" and "a:b" is
\* committed
C18_BothSourcesIndexed ==
  /\ DOMAIN sources = {<<"a">>, <<"a", ":", "b">>}
  /\ \A s \in DOMAIN sources : \E d \in DOMAIN committed : d.source = s

\* every file the pass under way has processed was, when it was processed,
\* in the committed index with the content read (or, being empty, not in it)
AlreadyIndexed ==
  \A r \in yielded : r.had = IF r.body = <<>> THEN {} ELSE {r.body}

\* C19: the commit of a pass that has processed only files the index
\* already held with their present content, as a second pass over an
\* unchanged filesystem does (a full pass after a full pass, a replay after
\* a stop between commit and watermark save), leaves the committed index as
\* it was: the same documents, each once, with the same id, title, body,
\* source and path (Spec).
C19_ReindexIdempotent ==
  [][(pc = "commit" /\ pc' = "stamp" /\ AlreadyIndexed)
       => committed' = committed]_vars

\* C19 witness: a full pass has committed again the documents of files that
\* were committed with the same content before, and the index holds each
\* once
C19_CommittedAgain ==
  /\ pc = "stamp"
  /\ read_dir.last_updated_at = None
  /\ added > 1
  /\ AlreadyIndexed
  /\ \A r \in yielded : DocsWithId(committed, r.id) = 1

\* a key of the persisted table has no ":", or occurs twice
MalformedTable ==
  \E l \in disk :
    \/ \A i \in 1..Len(l[1]) : l[1][i] # ":"
    \/ \E l2 \in disk : l2[1] = l[1] /\ l2 # l

ProducedPaths ==
  {produced[i].path : i \in {j \in 1..Len(produced) : produced[j].kind = "ok"}}

\* no call of next() on the walker has returned an error
NoReadError == \A i \in 1..Len(produced) : produced[i].kind # "err"

\* C21: with no read error, a walker without cutoff yields only indexable
\* files reachable from its root through directories that are not hidden,
\* none of them twice, and once it has returned None it has yielded every
\* one of them (SpecWalk).
C21_YieldsExactlyTheTargets ==
  (pc = "iter" /\ read_dir.last_updated_at = None /\ NoReadError) =>
    /\ ProducedPaths \subseteq IndexTargets(source_name)
    /\ \A i, j \in 1..Len(produced) :
         (i < j /\ produced[i].kind = "ok" /\ produced[j].kind = "ok")
           => produced[i].path # produced[j].path
    /\ (\E i \in 1..Len(produced) : produced[i].kind = "none")
         => ProducedPaths = IndexTargets(source_name)

\* C21 witness: a walker without cutoff over the source with a hidden file,
\* a hidden directory and a subdirectory has returned None after it yielded
\* two files, with no read error
C21_WalkedToTheEnd ==
  /\ pc = "iter"
  /\ source_name = SrcNotes
  /\ read_dir.last_updated_at = None
  /\ NoReadError
  /\ Cardinality(ProducedPaths) = 2
  /\ produced[Len(produced)].kind = "none"

\* the last call of next() on the walker returned None
ReturnedNone == produced # <<>> /\ produced[Len(produced)].kind = "none"

\* C22: a caller that goes on calling next() is eventually returned None;
\* None is returned only with the cursor exhausted and the queue of
\* directories empty, and a call that finds both so returns None
\* (SpecWalkOn).
C22_WalkEnds ==
  /\ (pc = "iter") ~> ReturnedNone
  /\ [](ReturnedNone => (read_dir.it = <<>> /\ read_dir.dirs = <<>>))
  /\ [][(pc = "iter" /\ read_dir.it = <<>> /\ read_dir.dirs = <<>>
           /\ produced' # produced) => ReturnedNone']_vars

\* C22 witness: None has been returned after files of the root and of a
\* subdirectory were yielded
C22_EndedAfterYields ==
  /\ ReturnedNone
  /\ \E i \in 1..Len(produced) : produced[i].kind = "ok"
  /\ Len(produced) >= 3

\* the directory a path is an entry of
DirOf(path) == SubSeq(path, 1, LastIndexOf(path, SEP) - 1)

\* C23: the files yielded from a directory come before every file yielded
\* from a directory found in it, and the directories are taken off the
\* queue in the order they were put on it: the queue is what was put on it
\* less what was taken off its front (SpecWide).
C23_BreadthFirst ==
  (pc = "iter") =>
    /\ IsPrefix(opened, enqueued)
    /\ read_dir.dirs = Drop(enqueued, Len(opened))
    /\ \A i, j \in 1..Len(produced) :
         (i < j /\ produced[i].kind = "ok" /\ produced[j].kind = "ok")
           => DirOf(DirOf(produced[i].path)) # DirOf(produced[j].path)

\* C23 witness: two directories found side by side and one found below
\* were opened, and a file of the one below was yielded
C23_ThreeDirectoriesOpened ==
  /\ pc = "iter"
  /\ Len(opened) = 3
  /\ \E i \in 1..Len(produced) :
       /\ produced[i].kind = "ok"
       /\ DirOf(DirOf(DirOf(produced[i].path))) = RootWide

\* C24: an update of the watermark of one pair adds that pair to the table
\* in memory if it is not there, removes none and leaves the time of every
\* other pair as it was; a table that is in memory never loses a pair; and
\* the persisted table an update leaves is the one before it (the save
\* failed) or the whole table in memory (Spec).
C24_UpdateFrame ==
  /\ [][(pc = "stamp" /\ pc' = "source" /\ tms.some) =>
          (/\ tms'.some
           /\ DOMAIN tms'.timestamps = DOMAIN tms.timestamps \cup {PassKey}
           /\ \A k \in DOMAIN tms.timestamps :
                k # PassKey => tms'.timestamps[k] = tms.timestamps[k]
           /\ (disk' # disk => disk' = SerializeTable(tms'.timestamps)))]_vars
  /\ [][(tms.some /\ tms'.some) =>
          (DOMAIN tms.timestamps \subseteq DOMAIN tms'.timestamps)]_vars

\* C24 witness: the pass of the second source has updated its watermark,
\* the table in memory holds both pairs with different times, and the save
\* has written both
C24_SecondPairSaved ==
  /\ pc = "source"
  /\ tms.some
  /\ DOMAIN tms.timestamps = Keys
  /\ \E k1, k2 \in Keys : tms.timestamps[k1] # tms.timestamps[k2]
  /\ disk = SerializeTable(tms.timestamps)

\* C25: a table that has been saved reloads to the mapping that was saved:
\* every key string parses back to the pair it was written from (SpecKeys).
C25_KeysRoundTrip ==
  (pc = "ready" /\ tms.some /\ disk = SerializeTable(tms.timestamps)) =>
    /\ DeserializeTable(disk) = <<TRUE, tms.timestamps>>
    /\ \A k \in DOMAIN tms.timestamps :
         DeserializeKey(SerializeKey(k)) = <<TRUE, k>>
    /\ \A k1, k2 \in DOMAIN tms.timestamps :
         SerializeKey(k1) = SerializeKey(k2) => k1 = k2

\* C26: while the Indexer of a run has no store (tms is None), a pass
\* walks without a cutoff whatever increment is, no step gives the Indexer
\* a store, and no step, the update after a commit included, changes the
\* persisted table (Spec).
C26_NoStoreNoWatermark ==
  /\ []((pc = "walk" /\ ~tms.some) => read_dir.last_updated_at = None)
  /\ [][(pc # "none" /\ ~tms.some) => (~tms'.some /\ disk' = disk)]_vars

\* C26 witness: a run whose store failed to load, with increment at its
\* default, has committed documents of a source and passed the update,
\* and the table an earlier run persisted holds a watermark
C26_PassDoneWithoutStore ==
  /\ pc = "source"
  /\ ~tms.some
  /\ increment
  /\ count > 0
  /\ disk # {}

=============================================================================
